---- MODULE Spec2Model ----
(***************************************************************************)
(* A model of server.js: the voice-over HTTP backend.                      *)
(*                                                                         *)
(*   GET  /health    answers {ok: true}                                    *)
(*   POST /generate  one chat call, then one speech call and one file      *)
(*                   write per returned variant, in order                  *)
(*   POST /zip       resolves each URL to a disk path and streams a zip    *)
(*                                                                         *)
(* A handler runs from one await to the next as one step, as the event     *)
(* loop runs it.  Strings the code only passes along are tokens; strings   *)
(* it takes apart or builds (URLs, paths, scripts, file names) are         *)
(* sequences of their parts.                                               *)
(***************************************************************************)
EXTENDS Integers, Sequences, FiniteSets, TLC

VARIABLES
    cfg,        \* the environment read at start-up: APP_KEY, BASE_URL
    up,         \* the node process is running
    files,      \* the file system's regular files: path -> content
    dirs,       \* the file system's directories: a set of paths
    req,        \* per request: what the client sent
    loc,        \* per request: the handler's position and local variables
    res,        \* per request: the response object
    calls,      \* per request: upstream fetches issued so far
    uuids,      \* batch identifiers handed out by uuidv4 so far
    removed     \* audio files deleted from outside the server

vars == <<cfg, up, files, dirs, req, loc, res, calls, uuids, removed>>

----------------------------------------------------------------------------
(* Bounds of the model *)

\* longest variants list the chat endpoint returns
MaxVariants == 3
\* longest hashtags list a variant carries
MaxTags == 7

\* the requests the server receives, named in order of arrival
Reqs == {1, 2}

----------------------------------------------------------------------------
(* Program constants *)

\* (v.hashtags || []).slice(0, 6)
HashtagCap == 6

\* path.dirname(fileURLToPath(import.meta.url)), as path segments
Dirname == <<"srv", "app">>

\* path.join(__dirname, 'public', 'voiceovers'): the asset store root
AssetRoot == Dirname \o <<"public", "voiceovers">>

\* the values process.env.APP_KEY may hold ("" when unset)
AppKeys == {"", "s3cret"}

\* the values process.env.BASE_URL may hold (the default when unset):
\* an origin and the path segments written after it
BaseUrls ==
    { [origin |-> "http://localhost:3000", segs |-> <<>>],
      [origin |-> "https://vo.example.com", segs |-> <<"vo">>] }

----------------------------------------------------------------------------
(* Small helpers *)

Min(a, b) == IF a < b THEN a ELSE b

Last(s) == s[Len(s)]

Front(s) == SubSeq(s, 1, Len(s) - 1)

IsPrefix(p, s) == Len(p) <= Len(s) /\ SubSeq(s, 1, Len(p)) = p

\* a JavaScript object: a record; a property it lacks reads as undefined
Has(o, k) == k \in DOMAIN o

\* JavaScript truthiness of a property that holds a string when present:
\* undefined and "" are falsy
Truthy(o, k) == Has(o, k) /\ o[k] # ""

----------------------------------------------------------------------------
(* Paths and URLs *)

\* A disk path is the sequence of its segments below the file system root;
\* a path written with a separator at its end has "" as its last segment.
\* path.join's normalisation of an absolute path: "" and "." segments are
\* dropped, ".." drops the segment before it and is ignored at the root,
\* and a separator at the end is kept unless the result is the root.
RECURSIVE PathNormalize(_, _)
PathNormalize(done, rest) ==
    IF rest = <<>> THEN done
    ELSE LET s == Head(rest) IN
         IF s = "" /\ Tail(rest) = <<>>
         THEN IF done = <<>> THEN done ELSE Append(done, "")
         ELSE IF s \in {"", "."} THEN PathNormalize(done, Tail(rest))
         ELSE IF s = ".."
              THEN PathNormalize(IF done = <<>> THEN done ELSE Front(done),
                                 Tail(rest))
              ELSE PathNormalize(Append(done, s), Tail(rest))

\* path.join(a, b) for an absolute a
PathJoin(a, b) == PathNormalize(<<>>, a \o b)

\* the path without the separator at its end, if it has one
StripSep(p) == IF p # <<>> /\ Last(p) = "" THEN Front(p) ELSE p

\* path.basename(p): separators at the end are not part of the name
Basename(p) == IF StripSep(p) = <<>> THEN "" ELSE Last(StripSep(p))

\* A string handed to new URL() is one of
\*   [kind |-> "special", origin, segs, suffix]
\*       origin "/" seg "/" seg ... suffix, with an http(s) origin; segs
\*       is empty when nothing follows the origin
\*   [kind |-> "opaque", scheme, segs, suffix]
\*       scheme ":" seg "/" seg ... suffix, with no slash after the colon
\*   [kind |-> "invalid"]
\*       a string new URL() throws on
\* suffix is the query and the fragment, from the first "?" or "#" on ("" when
\* there is none): the parser ends the path there.  The segments are the
\* pieces the parser cuts the path into, at "/" and for a special scheme
\* also at "\", each as the parser percent-encodes it.
UrlParses(u) == u.kind # "invalid"

\* the segments the URL parser reads as "." and ".."
SingleDot == {".", "%2e", "%2E"}
DoubleDot ==
    {"..", ".%2e", "%2e.", "%2e%2e", ".%2E", "%2E.", "%2E%2E",
     "%2e%2E", "%2E%2e"}

\* the URL parser's path state for a special scheme: a double-dot segment
\* removes the segment before it, a single-dot segment is skipped, and
\* either leaves an empty segment when it is the last; every other
\* segment, an empty one too, is kept; with no segment at all the path
\* is the one empty segment of "/"
RECURSIVE UrlPathState(_, _)
UrlPathState(done, rest) ==
    IF rest = <<>> THEN IF done = <<>> THEN <<"">> ELSE done
    ELSE LET s == Head(rest)
             last == Tail(rest) = <<>>
             shortened == IF done = <<>> THEN done ELSE Front(done)
         IN
         IF s \in DoubleDot
         THEN UrlPathState(IF last THEN Append(shortened, "") ELSE shortened,
                           Tail(rest))
         ELSE IF s \in SingleDot
         THEN UrlPathState(IF last THEN Append(done, "") ELSE done,
                           Tail(rest))
         ELSE UrlPathState(Append(done, s), Tail(rest))

\* new URL(u).pathname, as the segments between its slashes: normalised
\* for a special scheme, kept as written for an opaque path; the query
\* and the fragment are no part of it
Pathname(u) ==
    IF u.kind = "special" THEN UrlPathState(<<>>, u.segs) ELSE u.segs

\* /zip: path.join(__dirname, new URL(u).pathname)
DiskPath(u) == PathJoin(Dirname, Pathname(u))

\* mutant: the file is named after the loop index, not the ordinal
VoNameFromZero(i) == "vo_" \o ToString(i) \o ".mp3"

\* `vo_${i + 1}.mp3` for the loop index i
VoName(i) == "vo_" \o ToString(i + 1) \o ".mp3"

\* `${BASE_URL}/public/voiceovers/${batchId}/vo_${i + 1}.mp3`
FileUrl(base, batchId, i) ==
    [kind |-> "special", origin |-> base.origin,
     segs |-> base.segs \o <<"public", "voiceovers", batchId, VoName(i)>>,
     suffix |-> ""]

\* path.join(dir, `vo_${i + 1}.mp3`) with dir = path.join(__dirname,
\* 'public', 'voiceovers', batchId)
BatchDir(batchId) == PathJoin(Dirname, <<"public", "voiceovers", batchId>>)

\* mutant: every variant is written to the same file
FilePathFixed(batchId, i) == PathJoin(BatchDir(batchId), <<VoName(0)>>)

FilePath(batchId, i) == PathJoin(BatchDir(batchId), <<VoName(i)>>)

\* fs.existsSync(p): a path that ends in a separator names a directory
\* only
ExistsSync(p) ==
    IF StripSep(p) = p THEN p \in DOMAIN files \/ p \in dirs
    ELSE StripSep(p) \in dirs

\* fs.mkdirSync(p, {recursive: true}): p and every directory above it
MkdirP(p) == dirs \cup { SubSeq(p, 1, n) : n \in 0..Len(p) }

\* ensureDir(p)
EnsureDir(p) == IF ExistsSync(p) THEN dirs ELSE MkdirP(p)

----------------------------------------------------------------------------
(* What clients and the upstream service send *)

\* a JavaScript object with no properties; express.json() leaves req.body
\* an object for every request modelled here
EmptyObj == <<>>

\* the request's headers: X-APP-KEY absent, the configured key, another key
HeaderSets == { EmptyObj, [xAppKey |-> "s3cret"], [xAppKey |-> "wrong"] }

\* bodies posted to /generate
GenerateBodies ==
    { EmptyObj,
      [specs |-> [make |-> "Peterbilt"]],
      [specs |-> [model |-> "579"]],
      [specs |-> [make |-> "", model |-> "579"]],
      [specs |-> [make |-> "Peterbilt", model |-> "579", year |-> "2020"]] }

\* a script is the sequence of its characters; a character with no
\* escape of its own is written as its code point.  What trim strips:
\* the WhiteSpace and LineTerminator code points of ECMAScript
WhiteSpace ==
    {" ", "\t", "\n", "\r", "\f", "U+000B", "U+00A0", "U+FEFF",
     "U+1680", "U+2000", "U+2001", "U+2002", "U+2003", "U+2004", "U+2005",
     "U+2006", "U+2007", "U+2008", "U+2009", "U+200A", "U+2028", "U+2029",
     "U+202F", "U+205F", "U+3000"}

Tags(n) == [k \in 1..n |-> "#t" \o ToString(k)]

\* variants the chat endpoint may return: with more hashtags than are
\* kept, with no beats and no hashtags, with exactly as many as are kept
VGritty ==
    [style |-> "gritty", voiceover |-> <<"U+FEFF", "G", " ", "o", "\n">>,
     beats |-> <<"hook", "cta">>, hashtags |-> Tags(MaxTags)]
VFriendly ==
    [style |-> "friendly", voiceover |-> <<"H", "i">>]
VEnergy ==
    [style |-> "high-energy", voiceover |-> <<"\t", "Y", "o", "\r", "\n">>,
     beats |-> <<>>, hashtags |-> Tags(Min(HashtagCap, MaxTags))]
\* a variant with no voiceover text
VMute ==
    [style |-> "gritty", beats |-> <<"hook">>, hashtags |-> Tags(1)]

VariantPool == <<VGritty, VFriendly, VEnergy>>

\* n variants, taken from the pool in turn starting at its k-th
Run(k, n) == [j \in 1..n |-> VariantPool[((k + j - 2) % Len(VariantPool)) + 1]]

\* lists of every length up to the bound in the order the prompt asks
\* for, the longest also in another order, and lists with a mute variant
VariantLists ==
    { Run(1, n) : n \in 0..MaxVariants }
    \cup { Run(2, MaxVariants) }
    \cup { <<VMute>>, <<VFriendly, VMute>> }

\* what the chat fetch resolves to: a failure status and the text of the
\* body; or a success status with a body cr.json() rejects, message
\* being what the error it throws says; or a success status and JSON
\* with choices[0].message.content, that content being text JSON.parse
\* rejects with a message, or the object it parses to.  Reading the body
\* (cr.text(), cr.json()) is part of the response being returned.
ChatResponses ==
    { [ok |-> FALSE, status |-> 500, text |-> "upstream down"] }
    \cup { [ok |-> TRUE, status |-> 200, json |-> FALSE,
            message |-> "Unexpected token '<', \"<html>\" is not valid JSON"] }
    \cup { [ok |-> TRUE, status |-> 200, json |-> TRUE,
            content |-> [parses |-> FALSE,
                         message |-> "Unexpected end of JSON input"]] }
    \cup { [ok |-> TRUE, status |-> 200, json |-> TRUE,
            content |-> [parses |-> TRUE, value |-> [note |-> "sorry"]]] }
    \cup { [ok |-> TRUE, status |-> 200, json |-> TRUE,
            content |-> [parses |-> TRUE, value |-> [variants |-> l]]]
          : l \in VariantLists }

\* what the speech fetch resolves to: a status and what r.text() gives,
\* which is read on a failure status only
TtsResponses ==
    { [ok |-> TRUE, status |-> 200, text |-> ""],
      [ok |-> FALSE, status |-> 429, text |-> "rate limited"] }

\* the audio the speech endpoint returns for a text
AudioOf(text) == <<"mp3", text>>

\* URLs a client may post to /zip besides those /generate returned
UrlInvalid == [kind |-> "invalid"]
UrlTraversal ==
    [kind |-> "special", origin |-> "http://localhost:3000",
     segs |-> <<"public", "voiceovers", "..", "%2e%2E", "server.js">>,
     suffix |-> ""]
UrlSibling ==
    [kind |-> "special", origin |-> "http://evil.example", segs |-> <<".env">>,
     suffix |-> ""]
UrlOpaque ==
    [kind |-> "opaque", scheme |-> "x",
     segs |-> <<"..", "..", "etc", "passwd">>, suffix |-> ""]
UrlMissing ==
    [kind |-> "special", origin |-> "http://localhost:3000",
     segs |-> <<"public", "voiceovers", "nobatch", "vo_1.mp3">>,
     suffix |-> ""]
\* the path of a file with a slash, and with a dot segment, after it
UrlSlash ==
    [kind |-> "special", origin |-> "http://localhost:3000",
     segs |-> <<"server.js", "">>, suffix |-> ""]
UrlDotLast ==
    [kind |-> "special", origin |-> "http://localhost:3000",
     segs |-> <<".env", ".">>, suffix |-> ""]
\* a backslash as separator and a query: .../public\..\server.js?x=1
UrlQuery ==
    [kind |-> "special", origin |-> "http://localhost:3000",
     segs |-> <<"public", "..", "server.js">>, suffix |-> "?x=1"]
\* the origin with nothing after it
UrlNoPath ==
    [kind |-> "special", origin |-> "http://localhost:3000",
     segs |-> <<>>, suffix |-> ""]

\* files the machine holds before the server starts
InitialFiles ==
    (Dirname \o <<"server.js">>) :> "source"
    @@ (Dirname \o <<".env">>) :> "secrets"
    @@ <<"etc", "passwd">> :> "accounts"

\* the directories it holds, the root <<>> among them
InitialDirs == { <<>>, <<"etc">>, <<"srv">>, Dirname, Dirname \o <<"public">> }

----------------------------------------------------------------------------
(* The response object *)

NoBody == [none |-> TRUE]

\* a response nothing has been done to yet
NewRes ==
    [statusCode |-> 200, contentType |-> "", disposition |-> "",
     body |-> NoBody, entries |-> <<>>, archiveEnd |-> FALSE,
     headersSent |-> FALSE, conn |-> "open"]

\* res.status(code)
ResStatus(rs, code) == [rs EXCEPT !.statusCode = code]

\* res.json(obj): Content-Type is set unless one is set already; the
\* head and the body are sent and the response ends
ResJson(rs, obj) ==
    [rs EXCEPT !.contentType = IF @ = "" THEN "application/json" ELSE @,
               !.body = obj, !.headersSent = TRUE, !.conn = "ended"]

\* the two res.setHeader calls of /zip
ResZipHeaders(rs) ==
    [rs EXCEPT !.contentType = "application/zip",
               !.disposition = "attachment; filename=\"voiceovers.zip\""]

\* the archive piped into res writes an entry, named name and read from
\* the disk path: the response's head goes out with the first bytes
ResWriteEntry(rs, name, path) ==
    [rs EXCEPT !.entries = Append(@, [name |-> name, path |-> path]),
               !.headersSent = TRUE]

\* the archive ends: the central directory is written and res ends
ResEndArchive(rs) ==
    [rs EXCEPT !.archiveEnd = TRUE, !.headersSent = TRUE, !.conn = "ended"]

\* the process dies with the connection open: the socket is torn down
ResDestroy(rs) ==
    IF rs.conn = "open" THEN [rs EXCEPT !.conn = "destroyed"] ELSE rs

----------------------------------------------------------------------------
(* Request state *)

NoReq == [route |-> "none", headers |-> EmptyObj, body |-> EmptyObj]

\* no chat response yet
NoChat == [ok |-> FALSE, status |-> 0]

\* no speech response yet
NoTts == [ok |-> TRUE, status |-> 0, text |-> ""]

\* the handler's position and its local variables: cr, variants, i,
\* batchId and results of /generate, the response r of the speech fetch
\* that made ttsToMp3 throw (tr), the archive's queue of /zip
NewLoc ==
    [pc |-> "idle", cr |-> NoChat, variants |-> <<>>, i |-> 0,
     batchId |-> "", results |-> <<>>, tr |-> NoTts, queue |-> <<>>]

Init ==
    /\ cfg \in [APP_KEY : AppKeys, BASE_URL : BaseUrls]
    /\ up = TRUE
    /\ files = InitialFiles
    /\ dirs = InitialDirs
    /\ req = [r \in Reqs |-> NoReq]
    /\ loc = [r \in Reqs |-> NewLoc]
    /\ res = [r \in Reqs |-> NewRes]
    /\ calls = [r \in Reqs |-> [chat |-> 0, tts |-> 0]]
    /\ uuids = 0
    /\ removed = {}

\* request r reaches the server: requests are numbered as they arrive
Arrives(r) ==
    /\ up
    /\ loc[r].pc = "idle"
    /\ \A q \in Reqs : q < r => loc[q].pc # "idle"

\* mutant: a request with no X-APP-KEY header is let through
AppKeyPassesWhenAbsent(h) ==
    \/ cfg.APP_KEY = ""
    \/ ~Has(h, "xAppKey")
    \/ h.xAppKey = cfg.APP_KEY

\* the app key middleware lets the request through
AppKeyPasses(h) ==
    \/ cfg.APP_KEY = ""
    \/ Has(h, "xAppKey") /\ h.xAppKey = cfg.APP_KEY

Unauthorized(rs) == ResJson(ResStatus(rs, 401), [error |-> "Unauthorized"])

Finish(l) == [l EXCEPT !.pc = "done"]

\* app.get('/health')
Health(r, h) ==
    /\ Arrives(r)
    /\ req' = [req EXCEPT ![r] = [route |-> "health", headers |-> h,
                                  body |-> EmptyObj]]
    /\ res' = [res EXCEPT ![r] = ResJson(@, [ok |-> TRUE])]
    /\ loc' = [loc EXCEPT ![r] = Finish(@)]
    /\ UNCHANGED <<cfg, up, files, dirs, calls, uuids, removed>>

----------------------------------------------------------------------------
(* POST /generate *)

\* mutant: only make is required
SpecsValidMakeOnly(b) == Has(b, "specs") /\ Truthy(b.specs, "make")

\* !specs?.make || !specs?.model is false
SpecsValid(b) ==
    /\ Has(b, "specs")
    /\ Truthy(b.specs, "make")
    /\ Truthy(b.specs, "model")

\* String.prototype.trim on a sequence of characters
RECURSIVE TrimStart(_)
TrimStart(t) ==
    IF t # <<>> /\ Head(t) \in WhiteSpace THEN TrimStart(Tail(t)) ELSE t

RECURSIVE TrimEnd(_)
TrimEnd(t) ==
    IF t # <<>> /\ Last(t) \in WhiteSpace THEN TrimEnd(Front(t)) ELSE t

Trim(t) == TrimEnd(TrimStart(t))

\* mutant: the slice keeps one element more
SliceOneMore(l, n) == SubSeq(l, 1, Min(n + 1, Len(l)))

\* hashtags.slice(0, 6)
Slice(l, n) == SubSeq(l, 1, Min(n, Len(l)))

\* `VoiceOver ${i + 1} <dash> ${v.style}`; the dash of the source is
\* U+2014, written here with two hyphens
Label(i, v) == "VoiceOver " \o ToString(i + 1) \o " -- " \o v.style

\* the object pushed on results for variants[i] (i counts from 0)
ResultEntry(base, batchId, i, v) ==
    [label |-> Label(i, v),
     url |-> FileUrl(base, batchId, i),
     script |-> Trim(v.voiceover),
     beats |-> IF Has(v, "beats") THEN v.beats ELSE <<>>,
     hashtags |-> Slice(IF Has(v, "hashtags") THEN v.hashtags ELSE <<>>,
                        HashtagCap)]

\* mutant: one identifier serves every batch
UuidShared(n) == "b" \o ToString(1)

\* uuidv4(): the n-th identifier handed out, unlike every earlier one
Uuid(n) == "b" \o ToString(n)

\* the message of the TypeError reading property k of undefined throws
UndefinedRead(k) ==
    "Cannot read properties of undefined (reading '" \o k \o "')"

\* the message of the error ttsToMp3 throws on a failure status
TtsDetail(tr) == "TTS failed: " \o ToString(tr.status) \o " " \o tr.text

\* the catch of /generate
GenerateFailed(rs, detail) ==
    ResJson(ResStatus(rs, 500),
            [error |-> "Generation failed", detail |-> detail])

\* mutant: the speech fetches of all the variants left are issued at once
LoopFromAllAtOnce(r, cr, batchId, variants, i, results) ==
    IF i < Len(variants)
    THEN IF Has(variants[i + 1], "voiceover")
         THEN /\ loc' = [loc EXCEPT ![r] =
                           [@ EXCEPT !.pc = "tts", !.cr = cr,
                                     !.variants = variants,
                                     !.i = i, !.batchId = batchId,
                                     !.results = results]]
              /\ calls' = [calls EXCEPT ![r].tts = Len(variants)]
              /\ res' = res
         ELSE /\ loc' = [loc EXCEPT ![r] =
                           [@ EXCEPT !.pc = "done", !.cr = cr,
                                     !.variants = variants,
                                     !.i = i, !.batchId = batchId,
                                     !.results = results]]
              /\ calls' = calls
              /\ res' = [res EXCEPT ![r] = GenerateFailed(@, UndefinedRead("trim"))]
    ELSE /\ loc' = [loc EXCEPT ![r] =
                      [@ EXCEPT !.pc = "done", !.cr = cr,
                                !.variants = variants,
                                !.i = i, !.batchId = batchId,
                                !.results = results]]
         /\ calls' = calls
         /\ res' = [res EXCEPT ![r] =
                      ResJson(@, [batchId |-> batchId, files |-> results])]

\* The for loop of /generate from its test at index i up to the next
\* await or the end of the handler: with a variant left, its script is
\* trimmed (a TypeError when it has no voiceover) and the speech fetch is
\* issued; with none left, the batch is answered.
LoopFrom(r, cr, batchId, variants, i, results) ==
    IF i < Len(variants)
    THEN IF Has(variants[i + 1], "voiceover")
         THEN /\ loc' = [loc EXCEPT ![r] =
                           [@ EXCEPT !.pc = "tts", !.cr = cr,
                                     !.variants = variants,
                                     !.i = i, !.batchId = batchId,
                                     !.results = results]]
              /\ calls' = [calls EXCEPT ![r].tts = @ + 1]
              /\ res' = res
         ELSE /\ loc' = [loc EXCEPT ![r] =
                           [@ EXCEPT !.pc = "done", !.cr = cr,
                                     !.variants = variants,
                                     !.i = i, !.batchId = batchId,
                                     !.results = results]]
              /\ calls' = calls
              /\ res' = [res EXCEPT ![r] = GenerateFailed(@, UndefinedRead("trim"))]
    ELSE /\ loc' = [loc EXCEPT ![r] =
                      [@ EXCEPT !.pc = "done", !.cr = cr,
                                     !.variants = variants,
                                !.i = i, !.batchId = batchId,
                                !.results = results]]
         /\ calls' = calls
         /\ res' = [res EXCEPT ![r] =
                      ResJson(@, [batchId |-> batchId, files |-> results])]

\* the request arrives and the handler runs to its first await
GenerateStart(r, h, b) ==
    /\ Arrives(r)
    /\ req' = [req EXCEPT ![r] = [route |-> "generate", headers |-> h,
                                  body |-> b]]
    /\ IF ~AppKeyPasses(h)
       THEN /\ res' = [res EXCEPT ![r] = Unauthorized(@)]
            /\ loc' = [loc EXCEPT ![r] = Finish(@)]
            /\ calls' = calls
       ELSE IF ~SpecsValid(b)
       THEN /\ res' = [res EXCEPT ![r] =
                         ResJson(ResStatus(@, 400),
                            [error |-> "Missing required specs: make, model."])]
            /\ loc' = [loc EXCEPT ![r] = Finish(@)]
            /\ calls' = calls
       ELSE /\ calls' = [calls EXCEPT ![r].chat = @ + 1]
            /\ loc' = [loc EXCEPT ![r].pc = "chat"]
            /\ res' = res
    /\ UNCHANGED <<cfg, up, files, dirs, uuids, removed>>

\* the chat response is one the handler throws on before it has a
\* variants value: a failure status, a body that is not the expected
\* JSON, content that JSON.parse rejects
ChatThrows(cr) == ~cr.ok \/ ~cr.json \/ ~cr.content.parses

\* the message of the error thrown on it
ChatDetail(cr) ==
    IF ~cr.ok
    THEN "Chat failed: " \o ToString(cr.status) \o " " \o cr.text
    ELSE IF ~cr.json THEN cr.message
    ELSE cr.content.message

\* the chat fetch resolves and the handler runs to its next await
ChatReturns(r, cr) ==
    /\ up
    /\ loc[r].pc = "chat"
    /\ IF ChatThrows(cr)
       THEN /\ res' = [res EXCEPT ![r] = GenerateFailed(@, ChatDetail(cr))]
            /\ loc' = [loc EXCEPT ![r] = [@ EXCEPT !.pc = "done", !.cr = cr]]
            /\ UNCHANGED <<calls, uuids, dirs>>
       ELSE LET parsed == cr.content.value
                batchId == Uuid(uuids + 1)
            IN  /\ uuids' = uuids + 1
                /\ dirs' = EnsureDir(BatchDir(batchId))
                /\ IF Has(parsed, "variants")
                   THEN LoopFrom(r, cr, batchId, parsed.variants, 0, <<>>)
                   ELSE \* variants is undefined: variants.length throws
                        /\ res' = [res EXCEPT ![r] =
                                     GenerateFailed(@, UndefinedRead("length"))]
                        /\ loc' = [loc EXCEPT ![r] =
                                     [@ EXCEPT !.pc = "done", !.cr = cr,
                                               !.batchId = batchId]]
                        /\ calls' = calls
    /\ UNCHANGED <<cfg, up, files, req, removed>>

\* fs.writeFileSync(p, buf)
WriteFileSync(p, buf) ==
    [q \in DOMAIN files \cup {p} |-> IF q = p THEN buf ELSE files[q]]

\* mutant: the response body is written to the file before its status is
\* looked at
TtsReturnsWritesFirst(r, tr) ==
    /\ up
    /\ loc[r].pc = "tts"
    /\ LET l == loc[r]
           v == l.variants[l.i + 1]
       IN  /\ files' = WriteFileSync(FilePath(l.batchId, l.i),
                                     AudioOf(Trim(v.voiceover)))
           /\ IF ~tr.ok
              THEN /\ res' = [res EXCEPT ![r] =
                        GenerateFailed(@, TtsDetail(tr))]
                   /\ loc' = [loc EXCEPT ![r] = Finish([@ EXCEPT !.tr = tr])]
                   /\ UNCHANGED calls
              ELSE LoopFrom(r, l.cr, l.batchId, l.variants, l.i + 1,
                            Append(l.results,
                                   ResultEntry(cfg.BASE_URL, l.batchId, l.i, v)))
    /\ UNCHANGED <<cfg, up, dirs, req, uuids, removed>>

\* the speech fetch of ttsToMp3 resolves: on a failure status it throws,
\* else the audio is written, the entry is pushed and the loop goes on
TtsReturns(r, tr) ==
    /\ up
    /\ loc[r].pc = "tts"
    /\ LET l == loc[r]
           v == l.variants[l.i + 1]
       IN  IF ~tr.ok
           THEN /\ res' = [res EXCEPT ![r] =
                     GenerateFailed(@, TtsDetail(tr))]
                /\ loc' = [loc EXCEPT ![r] = Finish([@ EXCEPT !.tr = tr])]
                /\ UNCHANGED <<calls, files>>
           ELSE /\ files' = WriteFileSync(FilePath(l.batchId, l.i),
                                          AudioOf(Trim(v.voiceover)))
                /\ LoopFrom(r, l.cr, l.batchId, l.variants, l.i + 1,
                            Append(l.results,
                                   ResultEntry(cfg.BASE_URL, l.batchId, l.i, v)))
    /\ UNCHANGED <<cfg, up, dirs, req, uuids, removed>>

----------------------------------------------------------------------------
(* POST /zip *)

\* mutant: an empty list counts as a selection
FilesSelectedWhenPresent(b) == Has(b, "files")

\* files?.length is truthy
FilesSelected(b) == Has(b, "files") /\ Len(b.files) > 0

\* mutant: a URL new URL() rejects is passed over
RECURSIVE ZipLoopSkipsInvalid(_, _, _)
ZipLoopSkipsInvalid(urls, k, queue) ==
    IF k > Len(urls) THEN [threw |-> FALSE, queue |-> queue]
    ELSE IF ~UrlParses(urls[k]) THEN ZipLoopSkipsInvalid(urls, k + 1, queue)
    ELSE LET diskPath == PathJoin(Dirname, Pathname(urls[k])) IN
         ZipLoopSkipsInvalid(urls, k + 1,
                 IF ExistsSync(diskPath)
                 THEN Append(queue, [path |-> diskPath,
                                     name |-> Basename(diskPath)])
                 ELSE queue)

\* The for loop of /zip over the URLs from the k-th on, queue holding the
\* archive.file calls made so far.  It ends in [threw |-> TRUE] at a URL
\* new URL() rejects, else in the queue of the files that exist.
RECURSIVE ZipLoop(_, _, _)
ZipLoop(urls, k, queue) ==
    IF k > Len(urls) THEN [threw |-> FALSE, queue |-> queue]
    ELSE IF ~UrlParses(urls[k]) THEN [threw |-> TRUE, queue |-> queue]
    ELSE LET diskPath == DiskPath(urls[k]) IN
         ZipLoop(urls, k + 1,
                 IF ExistsSync(diskPath)
                 THEN Append(queue, [path |-> diskPath,
                                     name |-> Basename(diskPath)])
                 ELSE queue)

\* the catch of /zip
ZipFailed(rs, detail) ==
    IF rs.headersSent THEN rs
    ELSE ResJson(ResStatus(rs, 500),
                 [error |-> "ZIP failed", detail |-> detail])

\* the request arrives and the handler runs to await archive.finalize(),
\* or to its end.  When new URL() throws, the archive.file calls made
\* for the URLs before it stay queued in the archive, which is piped to
\* res and never finalized.
ZipStart(r, h, b) ==
    /\ Arrives(r)
    /\ req' = [req EXCEPT ![r] = [route |-> "zip", headers |-> h, body |-> b]]
    /\ IF ~AppKeyPasses(h)
       THEN /\ res' = [res EXCEPT ![r] = Unauthorized(@)]
            /\ loc' = [loc EXCEPT ![r] = Finish(@)]
       ELSE IF ~FilesSelected(b)
       THEN /\ res' = [res EXCEPT ![r] =
                         ResJson(ResStatus(@, 400),
                                 [error |-> "No files selected."])]
            /\ loc' = [loc EXCEPT ![r] = Finish(@)]
       ELSE LET looped == ZipLoop(b.files, 1, <<>>) IN
            IF looped.threw
            THEN /\ res' = [res EXCEPT ![r] =
                              ZipFailed(ResZipHeaders(@), "Invalid URL")]
                 /\ loc' = [loc EXCEPT ![r] =
                              Finish([@ EXCEPT !.queue = looped.queue])]
            ELSE /\ res' = [res EXCEPT ![r] = ResZipHeaders(@)]
                 /\ loc' = [loc EXCEPT ![r] =
                              [@ EXCEPT !.pc = "zip", !.queue = looped.queue]]
    /\ UNCHANGED <<cfg, up, files, dirs, calls, uuids, removed>>

\* the archive of r has a file queued: it works on its queue from the
\* archive.file call on, whether or not the handler has ended
ArchiveBusy(r) ==
    /\ req[r].route = "zip"
    /\ loc[r].pc \in {"zip", "done"}
    /\ loc[r].queue # <<>>

\* what the archive's output does to res: written into it while it is
\* open, lost once it has ended
ResPipeEntry(rs, name, path) ==
    IF rs.conn = "open" THEN ResWriteEntry(rs, name, path) ELSE rs

\* the archive takes the next queued file: a path that is gone by now is
\* passed over, a file goes into the stream under its name, a directory
\* under its name and a slash
ZipEntry(r) ==
    /\ up
    /\ ArchiveBusy(r)
    /\ LET e == Head(loc[r].queue) IN
       res' = [res EXCEPT ![r] =
                 IF e.path \in DOMAIN files
                 THEN ResPipeEntry(@, e.name, e.path)
                 ELSE IF ExistsSync(e.path)
                 THEN ResPipeEntry(@, e.name \o "/", e.path)
                 ELSE @]
    /\ loc' = [loc EXCEPT ![r].queue = Tail(@)]
    /\ UNCHANGED <<cfg, up, files, dirs, req, calls, uuids, removed>>

\* reading the next queued file fails after its header went into the
\* stream: the archive emits 'error', the listener rethrows outside any
\* try, and the process dies with every open connection
ZipReadError(r) ==
    /\ up
    /\ ArchiveBusy(r)
    /\ Head(loc[r].queue).path \in DOMAIN files
    /\ up' = FALSE
    /\ res' = [q \in Reqs |->
                 ResDestroy(IF q = r
                            THEN ResPipeEntry(res[q], Head(loc[r].queue).name,
                                              Head(loc[r].queue).path)
                            ELSE res[q])]
    /\ UNCHANGED <<cfg, files, dirs, req, loc, calls, uuids, removed>>

\* mutant: the files that went into the archive are deleted once it ends
ZipFinalizedCleansUp(r) ==
    /\ up
    /\ loc[r].pc = "zip"
    /\ loc[r].queue = <<>>
    /\ res' = [res EXCEPT ![r] = ResEndArchive(@)]
    /\ loc' = [loc EXCEPT ![r] = Finish(@)]
    /\ files' = [q \in DOMAIN files \
                       { res[r].entries[k].path : k \in 1..Len(res[r].entries) }
                  |-> files[q]]
    /\ UNCHANGED <<cfg, up, dirs, req, calls, uuids, removed>>

\* archive.finalize() resolves: the archive has ended and so has res
ZipFinalized(r) ==
    /\ up
    /\ loc[r].pc = "zip"
    /\ loc[r].queue = <<>>
    /\ res' = [res EXCEPT ![r] = ResEndArchive(@)]
    /\ loc' = [loc EXCEPT ![r] = Finish(@)]
    /\ UNCHANGED <<cfg, up, files, dirs, req, calls, uuids, removed>>

----------------------------------------------------------------------------
(* The world outside the server *)

\* files removed from outside at most this many times
MaxRemoved == 1

\* someone removes an audio file from the asset store
RemoveFile(p) ==
    /\ Cardinality(removed) < MaxRemoved
    /\ p \in DOMAIN files
    /\ IsPrefix(AssetRoot, p)
    /\ files' = [q \in DOMAIN files \ {p} |-> files[q]]
    /\ removed' = removed \cup {p}
    /\ UNCHANGED <<cfg, up, dirs, req, loc, res, calls, uuids>>

\* the URLs a successful /generate answered request g with
ReturnedUrls(g) ==
    IF  /\ req[g].route = "generate"
        /\ res[g].conn = "ended"
        /\ res[g].statusCode = 200
    THEN [k \in 1..Len(res[g].body.files) |-> res[g].body.files[k].url]
    ELSE <<>>

\* bodies posted to /zip: no list, an empty list, lists of URLs of the
\* client's making, and lists /generate returned, alone or followed by
\* a URL of the client's making
ZipBodies ==
    { EmptyObj, [files |-> <<>>] }
    \cup { [files |-> l] : l \in { <<UrlSibling, UrlInvalid>>,
                                   <<UrlQuery, UrlNoPath>>,
                                   <<UrlSibling, UrlOpaque>>,
                                   <<UrlMissing, UrlSlash, UrlDotLast>> } }
    \cup { [files |-> ReturnedUrls(g) \o tail] :
              g \in { q \in Reqs : ReturnedUrls(q) # <<>> },
              tail \in { <<>>, <<UrlInvalid>>, <<UrlTraversal>> } }

Next ==
    \/ \E r \in Reqs, h \in HeaderSets : Health(r, h)
    \/ \E r \in Reqs, h \in HeaderSets, b \in GenerateBodies :
           GenerateStart(r, h, b)
    \/ \E r \in Reqs, cr \in ChatResponses : ChatReturns(r, cr)
    \/ \E r \in Reqs, tr \in TtsResponses : TtsReturns(r, tr)
    \/ \E r \in Reqs, h \in HeaderSets, b \in ZipBodies : ZipStart(r, h, b)
    \/ \E r \in Reqs : ZipEntry(r)
    \/ \E r \in Reqs : ZipReadError(r)
    \/ \E r \in Reqs : ZipFinalized(r)
    \/ \E p \in DOMAIN files : RemoveFile(p)

Spec == Init /\ [][Next]_vars

----------------------------------------------------------------------------
(* Vocabulary of the properties, stated apart from the handlers' code *)

\* request r carried what the gate asks for: no secret is configured, or
\* its X-APP-KEY header is the secret
PassedGate(r) ==
    \/ cfg.APP_KEY = ""
    \/ /\ "xAppKey" \in DOMAIN req[r].headers
       /\ req[r].headers.xAppKey = cfg.APP_KEY

\* r has been answered with this status and a JSON body
AnsweredJson(r, code) ==
    /\ res[r].conn = "ended"
    /\ res[r].headersSent
    /\ res[r].statusCode = code
    /\ res[r].body # NoBody

\* the body has no specs, or its specs has no make or no model (a
\* property that is absent or empty)
LacksMakeOrModel(b) ==
    \/ "specs" \notin DOMAIN b
    \/ "make" \notin DOMAIN b.specs
    \/ "model" \notin DOMAIN b.specs
    \/ b.specs.make = ""
    \/ b.specs.model = ""

\* the handler of r did nothing beyond answering: no upstream call, no
\* batch identifier, nothing queued for or written to an archive, no
\* zip headers
HandlerIdle(r) ==
    /\ calls[r] = [chat |-> 0, tts |-> 0]
    /\ loc[r].batchId = ""
    /\ loc[r].queue = <<>>
    /\ res[r].entries = <<>>
    /\ ~res[r].archiveEnd
    /\ res[r].contentType # "application/zip"
    /\ res[r].disposition = ""

\* the directories directly under the asset store root
BatchDirsOnDisk ==
    { d \in dirs : Len(d) = Len(AssetRoot) + 1 /\ IsPrefix(AssetRoot, d) }

\* the requests that were given a batch identifier
BatchOwners == { r \in Reqs : loc[r].batchId # "" }

\* every identifier handed out and every batch directory belongs to one
\* request, and every audio file lies in the directory of its batch
BatchesOwned ==
    /\ Cardinality(BatchOwners) = uuids
    /\ \A d \in BatchDirsOnDisk : \E r \in BatchOwners : loc[r].batchId = Last(d)
    /\ \A p \in DOMAIN files \cup removed :
          IsPrefix(AssetRoot, p) => Front(p) \in BatchDirsOnDisk

----------------------------------------------------------------------------
(* C1 *)

\* C1 as stated: every POST /generate whose specs is absent or lacks make
\* or model is answered 400 with an error body, with no upstream call
\* and no batch identifier or directory.  A request the app key gate
\* turns away is answered 401 instead.
C1_Original ==
    \A r \in Reqs :
        (req[r].route = "generate" /\ LacksMakeOrModel(req[r].body))
        => AnsweredJson(r, 400)

\* C1, amended: every POST /generate that passes the app key gate and
\* whose specs is absent or lacks make or model is answered 400 with an
\* error body before any upstream call: neither the chat nor the speech
\* endpoint is called for it, it is given no batch identifier, and every
\* batch directory on disk belongs to a request with make and model.
C1_InvalidSpecsRejected ==
    /\ \A r \in Reqs :
          (req[r].route = "generate" /\ PassedGate(r)
             /\ LacksMakeOrModel(req[r].body))
          => /\ AnsweredJson(r, 400)
             /\ "error" \in DOMAIN res[r].body
             /\ HandlerIdle(r)
    /\ BatchesOwned
    /\ \A r \in BatchOwners : ~LacksMakeOrModel(req[r].body)

\* a request with no specs and a request whose specs lacks model have
\* both been answered, with a secret configured
C1_Witness ==
    /\ cfg.APP_KEY # ""
    /\ \E r, q \in Reqs :
          /\ req[r].route = "generate" /\ req[q].route = "generate"
          /\ PassedGate(r) /\ PassedGate(q)
          /\ "specs" \notin DOMAIN req[r].body
          /\ "specs" \in DOMAIN req[q].body
          /\ "model" \notin DOMAIN req[q].body.specs
          /\ res[r].statusCode = 400 /\ res[q].statusCode = 400

----------------------------------------------------------------------------
(* C2 *)

\* /generate answered r with 200
Succeeded(r) ==
    /\ req[r].route = "generate"
    /\ res[r].conn = "ended"
    /\ res[r].headersSent
    /\ res[r].statusCode = 200

\* the variants list in the chat response r's handler received
ReturnedVariants(r) == loc[r].cr.content.value.variants

\* t is v without its leading and trailing white space
IsTrimOf(t, v) ==
    \E a \in 1..(Len(v) + 1), b \in 0..Len(v) :
        /\ t = SubSeq(v, a, b)
        /\ \A j \in 1..(a - 1) : v[j] \in WhiteSpace
        /\ \A j \in (b + 1)..Len(v) : v[j] \in WhiteSpace
        /\ t = <<>> \/ (Head(t) \notin WhiteSpace /\ Last(t) \notin WhiteSpace)

\* C2: a successful generate (make and model set, N variants returned)
\* answers exactly N file entries, and the k-th carries ordinal k in its
\* label and in its file name vo_k.mp3, and the style, the trimmed
\* voiceover and the beats of the k-th returned variant.
C2_EntryPerVariantInOrder ==
    \A r \in Reqs :
        Succeeded(r) =>
          /\ ~LacksMakeOrModel(req[r].body)
          /\ LET vs == ReturnedVariants(r)
                 fl == res[r].body.files
             IN  /\ Len(fl) = Len(vs)
                 /\ \A k \in 1..Len(vs) :
                       /\ fl[k].label =
                            "VoiceOver " \o ToString(k) \o " -- " \o vs[k].style
                       /\ Last(fl[k].url.segs) = "vo_" \o ToString(k) \o ".mp3"
                       /\ fl[k].url.segs[Len(fl[k].url.segs) - 1]
                            = res[r].body.batchId
                       /\ IsTrimOf(fl[k].script, vs[k].voiceover)
                       /\ fl[k].beats = IF "beats" \in DOMAIN vs[k]
                                        THEN vs[k].beats ELSE <<>>

\* a generate succeeded on the longest list, returned in an order other
\* than the prompt's and with a script that had white space to trim
C2_Witness ==
    \E r \in Reqs :
        /\ Succeeded(r)
        /\ Len(ReturnedVariants(r)) = MaxVariants
        /\ ReturnedVariants(r)[1].style # "gritty"
        /\ \E k \in 1..MaxVariants :
              res[r].body.files[k].script # ReturnedVariants(r)[k].voiceover

----------------------------------------------------------------------------
(* C3 *)

\* C3: whatever URLs are posted to /zip, every file that goes into an
\* archive lies under the asset store root.  The handler joins the
\* URL's path to __dirname with no check, so it does not hold.
C3_ArchiveWithinAssetRoot ==
    \A r \in Reqs :
        \A k \in 1..Len(res[r].entries) :
            IsPrefix(AssetRoot, res[r].entries[k].path)

----------------------------------------------------------------------------
(* C4 *)

\* C4: with a secret configured, a request to /generate or /zip whose
\* X-APP-KEY is missing or is not the secret is answered 401
\* {error: 'Unauthorized'} and its handler does nothing; /health is
\* answered 200 {ok: true} whatever the header; with no secret
\* configured no request is answered 401; every batch belongs to a
\* request that passed the gate.
C4_GateGuardsHandlers ==
    /\ \A r \in Reqs :
          /\ (req[r].route \in {"generate", "zip"} /\ ~PassedGate(r))
             => /\ AnsweredJson(r, 401)
                /\ res[r].body = [error |-> "Unauthorized"]
                /\ HandlerIdle(r)
                /\ loc[r].pc = "done"
          /\ req[r].route = "health"
             => /\ AnsweredJson(r, 200)
                /\ res[r].body = [ok |-> TRUE]
                /\ HandlerIdle(r)
          /\ (req[r].route # "none" /\ PassedGate(r))
             => res[r].statusCode # 401
    /\ BatchesOwned
    /\ \A r \in BatchOwners : PassedGate(r)

\* with a secret configured, a /generate with no header was answered 401
\* and a /health with no header was answered 200
C4_Witness ==
    /\ cfg.APP_KEY # ""
    /\ \E r, q \in Reqs :
          /\ req[r].route = "generate" /\ req[r].headers = EmptyObj
          /\ res[r].statusCode = 401 /\ res[r].conn = "ended"
          /\ req[q].route = "health" /\ req[q].headers = EmptyObj
          /\ res[q].statusCode = 200 /\ res[q].conn = "ended"

----------------------------------------------------------------------------
(* C5 *)

\* the disk path where /generate wrote the k-th audio file of r's batch
AudioPath(r, k) ==
    AssetRoot \o <<loc[r].batchId, "vo_" \o ToString(k) \o ".mp3">>

\* /zip request z was posted exactly the URLs /generate answered g with,
\* passed the gate, and its archive has ended
ZippedBatch(z, g) ==
    /\ req[z].route = "zip"
    /\ PassedGate(z)
    /\ Succeeded(g)
    /\ Len(res[g].body.files) > 0
    /\ "files" \in DOMAIN req[z].body
    /\ req[z].body.files = [k \in 1..Len(res[g].body.files) |->
                               res[g].body.files[k].url]
    /\ res[z].archiveEnd

\* the archive of z holds, in the order of the list, entries named
\* vo_k.mp3 read from the audio files of g's batch, each at most once,
\* and one for every audio file that was never removed
ArchiveIsBatch(z, g) ==
    LET n == Len(res[g].body.files)
        es == res[z].entries
    IN  /\ res[z].statusCode = 200
        /\ res[z].body = NoBody
        /\ \E ord \in [1..Len(es) -> 1..n] :
              /\ \A j \in 1..Len(es) :
                    /\ es[j].name = "vo_" \o ToString(ord[j]) \o ".mp3"
                    /\ es[j].path = AudioPath(g, ord[j])
              /\ \A i, j \in 1..Len(es) : i < j => ord[i] < ord[j]
        /\ \A k \in 1..n :
              AudioPath(g, k) \notin removed
              => \E j \in 1..Len(es) : es[j].path = AudioPath(g, k)

\* C5: /zip on the full list of URLs a successful generate returned
\* yields an archive with one entry, named vo_<ordinal>.mp3, for every
\* listed URL whose audio file is still on disk, and passes over the
\* others without an error.  With a BASE_URL that has a path of its own
\* the URLs resolve to paths that do not exist and the archive is empty.
C5_ArchiveOfReturnedList ==
    \A z, g \in Reqs : ZippedBatch(z, g) => ArchiveIsBatch(z, g)

\* what does hold: the same, for a BASE_URL that is an origin alone
C5_ArchiveOfReturnedListAtOrigin ==
    \A z, g \in Reqs :
        (ZippedBatch(z, g) /\ cfg.BASE_URL.segs = <<>>) => ArchiveIsBatch(z, g)

----------------------------------------------------------------------------
(* C6 *)

\* the body names no files: the list is absent or empty
NoFilesListed(b) == "files" \notin DOMAIN b \/ b.files = <<>>

\* C6 as stated: every POST /zip with an empty or absent files list is
\* answered 400.  A request the app key gate turns away is answered 401.
C6_Original ==
    \A r \in Reqs :
        (req[r].route = "zip" /\ NoFilesListed(req[r].body))
        => AnsweredJson(r, 400)

\* C6, amended: every POST /zip that passes the app key gate with an
\* empty or absent files list is answered 400 {error: "No files
\* selected."} before any streaming: no zip header is set, no archive is
\* created, nothing is queued and no archive bytes are sent.
C6_EmptyListRejected ==
    \A r \in Reqs :
        (req[r].route = "zip" /\ PassedGate(r) /\ NoFilesListed(req[r].body))
        => /\ AnsweredJson(r, 400)
           /\ res[r].body = [error |-> "No files selected."]
           /\ res[r].contentType = "application/json"
           /\ HandlerIdle(r)
           /\ loc[r].pc = "done"

\* a /zip with an empty list and a /zip with no list were both answered
C6_Witness ==
    \E r, q \in Reqs :
        /\ req[r].route = "zip" /\ req[q].route = "zip"
        /\ PassedGate(r) /\ PassedGate(q)
        /\ "files" \in DOMAIN req[r].body /\ req[r].body.files = <<>>
        /\ "files" \notin DOMAIN req[q].body
        /\ res[r].statusCode = 400 /\ res[q].statusCode = 400

----------------------------------------------------------------------------
(* C7 *)

\* the entry e built from variant v carries the first 6 hashtags of v in
\* order (none when v has none) and the beats of v (none when v has none)
CapsHashtags(e, v) ==
    LET given == IF "hashtags" \in DOMAIN v THEN v.hashtags ELSE <<>>
    IN  /\ Len(e.hashtags) <= 6
        /\ Len(e.hashtags) = Min(6, Len(given))
        /\ \A j \in 1..Len(e.hashtags) : e.hashtags[j] = given[j]
        /\ e.beats = IF "beats" \in DOMAIN v THEN v.beats ELSE <<>>

\* C7: in every file entry generate builds or returns, hashtags is the
\* first 6, in order, of the variant's hashtags, so at most 6 however
\* many the chat response supplied, and empty when the variant has none;
\* beats is the variant's beats, or empty when it has none.
C7_HashtagsCapped ==
    \A r \in Reqs :
        /\ \A k \in 1..Len(loc[r].results) :
              CapsHashtags(loc[r].results[k], ReturnedVariants(r)[k])
        /\ Succeeded(r) => res[r].body.files = loc[r].results

\* a generate returned an entry cut down to 6 of its variant's hashtags
\* and an entry for a variant with no hashtags
C7_Witness ==
    \E r \in Reqs :
        /\ Succeeded(r)
        /\ \E k \in 1..Len(res[r].body.files) :
              /\ "hashtags" \in DOMAIN ReturnedVariants(r)[k]
              /\ Len(ReturnedVariants(r)[k].hashtags) > 6
              /\ Len(res[r].body.files[k].hashtags) = 6
        /\ \E k \in 1..Len(res[r].body.files) :
              /\ "hashtags" \notin DOMAIN ReturnedVariants(r)[k]
              /\ res[r].body.files[k].hashtags = <<>>

----------------------------------------------------------------------------
(* C8 *)

\* the audio files ever written into the batch directory of r, those
\* removed from outside since included
AudioOfBatch(r) ==
    { p \in DOMAIN files \cup removed :
        Front(p) = AssetRoot \o <<loc[r].batchId>> }

\* the chat response r received holds a variants list
GotVariants(r) ==
    /\ loc[r].cr.ok /\ loc[r].cr.json /\ loc[r].cr.content.parses
    /\ "variants" \in DOMAIN loc[r].cr.content.value

\* C8 as stated: the batch directory of every finished generate holds as
\* many audio files as variants were returned.  A speech failure, or a
\* variant with no voiceover, ends the request with fewer.
C8_Original ==
    \A r \in BatchOwners :
        (loc[r].pc = "done" /\ GotVariants(r))
        => Cardinality(AudioOfBatch(r)) = Len(ReturnedVariants(r))

\* C8, amended: the batch directory of a generate that succeeded holds
\* exactly as many audio files as variants were returned, vo_1.mp3 to
\* vo_N.mp3, for any N >= 0; while the request runs, and after it
\* failed, the directory holds the first k <= N of them, k the number of
\* entries built; and a generate whose chat call returned no variants
\* succeeds with an empty list.
C8_AudioPerVariant ==
    \A r \in BatchOwners :
        GotVariants(r) =>
          LET n == Len(ReturnedVariants(r))
              k == Len(loc[r].results)
          IN  /\ k <= n
              /\ AudioOfBatch(r) = { AudioPath(r, j) : j \in 1..k }
              /\ Succeeded(r) => k = n
              /\ n = 0 => Succeeded(r) /\ res[r].body.files = <<>>
              /\ AssetRoot \o <<loc[r].batchId>> \in dirs

\* one generate succeeded on the longest list and its directory holds
\* that many files, another succeeded on an empty list
C8_Witness ==
    \E r, q \in BatchOwners :
        /\ Succeeded(r) /\ Succeeded(q)
        /\ Len(ReturnedVariants(r)) = MaxVariants
        /\ Cardinality(AudioOfBatch(r)) = MaxVariants
        /\ ReturnedVariants(q) = <<>>
        /\ AudioOfBatch(q) = {}

----------------------------------------------------------------------------
(* C9 *)

\* C9: the chat endpoint is called once for every generate request that
\* passes the gate with make and model, and when that step fails (a
\* failure status, or a body that is not JSON holding a variants list)
\* the request is answered 500 with no batch identifier, no batch
\* directory and no speech call.  A response that parses but holds no
\* variants list is found out only after the directory is made.
C9_ChatOnceNoPartialBatch ==
    \A r \in Reqs :
        (req[r].route = "generate" /\ PassedGate(r)
           /\ ~LacksMakeOrModel(req[r].body))
        => /\ calls[r].chat = 1
           /\ (loc[r].pc \notin {"idle", "chat"} /\ ~GotVariants(r))
              => /\ AnsweredJson(r, 500)
                 /\ loc[r].batchId = ""
                 /\ calls[r].tts = 0

\* what does hold: the call is made once, every failure of the step is
\* answered 500 with no speech call, and no batch is made when the
\* status is a failure or the body or its content is not JSON
C9_ChatOnceAnswered500 ==
    \A r \in Reqs :
        (req[r].route = "generate" /\ PassedGate(r)
           /\ ~LacksMakeOrModel(req[r].body))
        => /\ calls[r].chat = 1
           /\ (loc[r].pc \notin {"idle", "chat"} /\ ~GotVariants(r))
              => /\ AnsweredJson(r, 500)
                 /\ calls[r].tts = 0
                 /\ AudioOfBatch(r) = {}
                 /\ (~loc[r].cr.ok \/ ~loc[r].cr.json
                      \/ ~loc[r].cr.content.parses)
                    => loc[r].batchId = ""

----------------------------------------------------------------------------
(* C10 *)

\* C10: a /zip with a non-empty list that fails before streaming
\* starts, as on a list element that is no URL, is answered 500 with a
\* body of error and detail and no archive bytes; a /zip that fails
\* after streaming started is sent no JSON body and its connection is
\* torn down; and no response carries both archive bytes and a JSON
\* body.
C10_ZipFailures ==
    \A r \in Reqs :
        /\ ( /\ req[r].route = "zip" /\ PassedGate(r)
             /\ ~NoFilesListed(req[r].body)
             /\ \E k \in 1..Len(req[r].body.files) :
                   req[r].body.files[k].kind = "invalid" )
           => /\ AnsweredJson(r, 500)
              /\ DOMAIN res[r].body = {"error", "detail"}
              /\ res[r].body.error = "ZIP failed"
              /\ res[r].entries = <<>>
              /\ ~res[r].archiveEnd
        /\ (~up /\ loc[r].pc = "zip")
           => /\ res[r].conn = "destroyed"
              /\ res[r].body = NoBody
        /\ (res[r].entries # <<>> \/ res[r].archiveEnd)
           => res[r].body = NoBody

\* one /zip was answered 500 for a list with an element that is no URL,
\* another had sent archive bytes when reading a file failed
C10_Witness ==
    \E r, q \in Reqs :
        /\ req[r].route = "zip" /\ req[q].route = "zip"
        /\ res[r].statusCode = 500 /\ res[r].conn = "ended"
        /\ Len(req[r].body.files) > 1
        /\ ~up
        /\ res[q].entries # <<>>
        /\ res[q].conn = "destroyed"

----------------------------------------------------------------------------
(* C11 *)

\* the speech fetch of r's variant at ordinal k came back with a failure
\* status
SpeechFailedAt(r, k) ==
    /\ req[r].route = "generate"
    /\ ~loc[r].tr.ok
    /\ loc[r].i + 1 = k

\* C11: when speech synthesis fails for the variant at ordinal k, the
\* request is answered 500 with an error body that lists no files, the
\* audio files of its batch are exactly vo_1 .. vo_(k-1), none of them
\* cleaned up by the server, and synthesis was invoked k times, never for
\* a later ordinal.
C11_SpeechFailureStopsBatch ==
    \A r \in Reqs : \A k \in 1..MaxVariants :
        SpeechFailedAt(r, k)
        => /\ loc[r].pc = "done"
           /\ AnsweredJson(r, 500)
           /\ DOMAIN res[r].body = {"error", "detail"}
           /\ res[r].body.error = "Generation failed"
           /\ AudioOfBatch(r) = { AudioPath(r, j) : j \in 1..(k - 1) }
           /\ AudioOfBatch(r) \ removed \subseteq DOMAIN files
           /\ calls[r].tts = k
           /\ Len(loc[r].results) = k - 1

\* synthesis failed for the second of three variants: vo_1.mp3 is on
\* disk, vo_2.mp3 and vo_3.mp3 are not
C11_Witness ==
    \E r \in Reqs :
        /\ SpeechFailedAt(r, 2)
        /\ Len(loc[r].variants) = 3
        /\ AudioPath(r, 1) \in DOMAIN files
        /\ AudioPath(r, 2) \notin DOMAIN files
        /\ AudioPath(r, 3) \notin DOMAIN files
        /\ res[r].statusCode = 500

----------------------------------------------------------------------------
(* C12 *)

\* the speech calls of r that have come back: one per entry pushed, and
\* the one that failed
SpeechReturned(r) ==
    Len(loc[r].results) + (IF loc[r].tr.ok THEN 0 ELSE 1)

\* the speech calls of r issued and not yet back
SpeechInFlight(r) == calls[r].tts - SpeechReturned(r)

\* C12: within one generate request the loop is sequential.  At every
\* moment at most one speech call of the request is in flight, and one is
\* exactly while the handler awaits it; the call in flight is for the
\* ordinal after the last file written, so the files of the batch are
\* vo_1 .. vo_j for the j calls that succeeded, in ordinal order; the
\* batch directory exists from before the first call; the 200 response
\* is sent with no call in flight and the file of every variant written.
C12_LoopIsSequential ==
    \A r \in Reqs :
        req[r].route = "generate"
        => /\ SpeechInFlight(r) \in {0, 1}
           /\ SpeechInFlight(r) = 1 <=> loc[r].pc = "tts"
           /\ loc[r].pc = "tts"
              => /\ calls[r].tts = Len(loc[r].results) + 1
                 /\ loc[r].i = Len(loc[r].results)
           /\ calls[r].tts > 0
              => /\ AssetRoot \o <<loc[r].batchId>> \in dirs
                 /\ AudioOfBatch(r) =
                      { AudioPath(r, j) : j \in 1..Len(loc[r].results) }
           /\ Succeeded(r)
              => /\ SpeechInFlight(r) = 0
                 /\ calls[r].tts = Len(ReturnedVariants(r))
                 /\ Len(loc[r].results) = Len(ReturnedVariants(r))

\* the second speech call of a request is in flight with vo_1.mp3 written
\* and vo_2.mp3 not
C12_Witness ==
    \E r \in Reqs :
        /\ req[r].route = "generate"
        /\ loc[r].pc = "tts"
        /\ calls[r].tts = 2
        /\ Len(loc[r].variants) = 3
        /\ AudioPath(r, 1) \in DOMAIN files
        /\ AudioPath(r, 2) \notin DOMAIN files

----------------------------------------------------------------------------
(* C13 *)

\* the audio files on disk or removed from outside: the files two levels
\* below the asset root
AudioFiles ==
    { p \in DOMAIN files \cup removed :
        Len(p) = Len(AssetRoot) + 2 /\ IsPrefix(AssetRoot, p) }

\* file p was written by r: it is the file of the k-th entry r pushed,
\* and what it holds is the audio of the script of that entry
WrittenBy(p, r) ==
    \E k \in 1..Len(loc[r].results) :
        /\ p = AudioPath(r, k)
        /\ p \in DOMAIN files
           => files[p] = AudioOf(loc[r].results[k].script)

\* the batch directory the path of an audio file lies in
BatchOf(p) == p[Len(AssetRoot) + 1]

\* C13: under every interleaving of concurrent generate requests each
\* request has a batch identifier and a batch directory of its own, every
\* audio file lies in the batch directory of exactly one request (so no
\* file path belongs to two requests) and was written by that request,
\* and a request that succeeds returns, under its own batch identifier,
\* the entries its own variants give in their own order, ordinals from 1.
C13_BatchesIsolated ==
    /\ \A r, q \in BatchOwners :
          r # q => loc[r].batchId # loc[q].batchId
    /\ \A r \in BatchOwners : AssetRoot \o <<loc[r].batchId>> \in dirs
    /\ \A p \in AudioFiles :
          \E r \in BatchOwners :
              /\ BatchOf(p) = loc[r].batchId
              /\ WrittenBy(p, r)
              /\ \A q \in BatchOwners : BatchOf(p) = loc[q].batchId => q = r
    /\ \A r \in Reqs :
          Succeeded(r)
          => /\ res[r].body.batchId = loc[r].batchId
             /\ res[r].body.files =
                  [k \in 1..Len(ReturnedVariants(r)) |->
                     ResultEntry(cfg.BASE_URL, loc[r].batchId, k - 1,
                                 ReturnedVariants(r)[k])]

\* two generate requests are in their loops at the same time, each with
\* an audio file written and a speech call in flight
C13_Witness ==
    \E r, q \in Reqs :
        /\ r # q
        /\ req[r].route = "generate" /\ req[q].route = "generate"
        /\ loc[r].pc = "tts" /\ loc[q].pc = "tts"
        /\ AudioPath(r, 1) \in DOMAIN files
        /\ AudioPath(q, 1) \in DOMAIN files
        /\ AudioPath(r, 1) # AudioPath(q, 1)

----------------------------------------------------------------------------
(* C14 *)

\* the step is taken by the handler of r, or destroys r's connection
Acts(r) == req'[r] # req[r] \/ loc'[r] # loc[r] \/ res'[r] # res[r]

\* every audio file and every directory of the asset store before the
\* step is there after it, the file with what it held
AudioKept ==
    /\ \A p \in DOMAIN files :
          IsPrefix(AssetRoot, p)
          => p \in DOMAIN files' /\ files'[p] = files[p]
    /\ dirs \subseteq dirs'

\* C14: audio files are immutable once written.  No step of the server
\* (every step but a removal from outside) overwrites or deletes an audio
\* file or a directory of the asset store, and a step of /health, of
\* /zip, or one that answers 400 or 401, leaves every file and directory
\* as it was.
C14_AudioImmutable ==
    [][ /\ removed' = removed => AudioKept
        /\ \A r \in Reqs :
              ( /\ Acts(r)
                /\ \/ req'[r].route \in {"health", "zip"}
                   \/ res'[r].statusCode \in {400, 401} )
              => files' = files /\ dirs' = dirs ]_vars

\* a /zip has put the first audio file of a batch into its archive and
\* ended, and the file is on disk with the audio that was written
C14_Witness ==
    \E z, g \in Reqs :
        /\ req[z].route = "zip"
        /\ res[z].archiveEnd
        /\ Succeeded(g)
        /\ \E k \in 1..Len(res[z].entries) :
              /\ res[z].entries[k].path = AudioPath(g, 1)
              /\ AudioPath(g, 1) \in DOMAIN files
              /\ files[AudioPath(g, 1)] = AudioOf(res[g].body.files[1].script)

----------------------------------------------------------------------------
(* C15 *)

\* the URL returned for ordinal k of g's batch is the base URL followed
\* by /public/voiceovers/<batch>/vo_<k>.mp3, and /zip resolves it, through
\* its path component, to the disk path where that audio was written
RoundTrips(g, k) ==
    LET u == res[g].body.files[k].url IN
    /\ u.origin = cfg.BASE_URL.origin
    /\ u.segs = cfg.BASE_URL.segs
                 \o <<"public", "voiceovers", res[g].body.batchId,
                      "vo_" \o ToString(k) \o ".mp3">>
    /\ DiskPath(u) = AudioPath(g, k)

\* C15: for every configured base URL, each URL a successful generate
\* returns is resolved by /zip to exactly the disk path where generate
\* wrote the audio of that ordinal.  With a BASE_URL that has a path of
\* its own, /zip resolves the whole pathname, prefix included, under the
\* server directory, which is another path.
C15_UrlResolvesToWrittenFile ==
    \A g \in Reqs :
        Succeeded(g) => \A k \in 1..Len(res[g].body.files) : RoundTrips(g, k)

\* what does hold: the same, for a BASE_URL that is an origin alone
C15_UrlResolvesToWrittenFileAtOrigin ==
    \A g \in Reqs :
        (Succeeded(g) /\ cfg.BASE_URL.segs = <<>>)
        => \A k \in 1..Len(res[g].body.files) : RoundTrips(g, k)

----------------------------------------------------------------------------
(* C16 *)

\* r has received its one response: a JSON body under one of the four
\* statuses, with error and detail when the handler caught an error
AnsweredOnce(r) ==
    /\ loc[r].pc = "done"
    /\ \E code \in {200, 400, 401, 500} : AnsweredJson(r, code)
    /\ res[r].statusCode = 500
       => DOMAIN res[r].body = {"error", "detail"}
    /\ res[r].statusCode \in {400, 401}
       => "error" \in DOMAIN res[r].body
    /\ res[r].entries = <<>> /\ ~res[r].archiveEnd

\* the handler of r awaits an upstream call in a running process, its
\* response still to come
AwaitsUpstream(r) ==
    /\ up
    /\ loc[r].pc \in {"chat", "tts"}
    /\ res[r].conn = "open"
    /\ ~res[r].headersSent
    /\ res[r].body = NoBody

\* C16: every /generate request receives exactly one response, with a
\* status in {200, 400, 401, 500}: at every moment the request either
\* has its one JSON response (error and detail on a caught error) or its
\* handler awaits an upstream call whose return will lead to it; no
\* request is left with none.  When reading a file for a concurrent /zip
\* fails, the rethrow in the archive's error listener ends the process
\* and the /generate requests in flight are never answered.
C16_GenerateAnsweredOnce ==
    \A r \in Reqs :
        req[r].route = "generate" => AnsweredOnce(r) \/ AwaitsUpstream(r)

\* what does hold: the same, as long as the process is up
C16_GenerateAnsweredOnceWhileUp ==
    \A r \in Reqs :
        (req[r].route = "generate" /\ up)
        => AnsweredOnce(r) \/ AwaitsUpstream(r)

\* every upstream call eventually returns
FairSpec ==
    /\ Spec
    /\ \A r \in Reqs :
          /\ WF_vars(\E cr \in ChatResponses : ChatReturns(r, cr))
          /\ WF_vars(\E tr \in TtsResponses : TtsReturns(r, tr))

\* what does hold when every upstream call returns: a /generate request
\* is eventually answered, unless the process dies first
C16_EventuallyAnsweredOrDown ==
    \A r \in Reqs :
        (req[r].route = "generate") ~> (AnsweredOnce(r) \/ ~up)

====
